---- MODULE Spec2Model ----
(***************************************************************************)
(* texman: workspace resolution (build.rs find_workspace), the two config  *)
(* loaders and the document model (workspace.rs), and the build            *)
(* orchestration (build.rs build), as state machines over a filesystem.    *)
(*                                                                         *)
(* A path is the sequence of its components below "/", so <<>> is the      *)
(* filesystem root.  A string that the program formats (a path rendered    *)
(* for the template, the generated text) is a sequence of tokens.          *)
(***************************************************************************)
EXTENDS Naturals, Sequences, FiniteSets, TLC

VARIABLES
    start,        \* the process's working directory (build.rs:53)
    marker,       \* per ancestor level of start: the state of <dir>/workspace.toml
    live,         \* number of levels of start (from "/") that Path::exists sees
    tree,         \* what lies below the workspace root: prelude/, docs/<key>/
    outputPdf,    \* the file docs/<key>/output.pdf
    opts,         \* BuildOpts (build.rs:11-21)
    pc,           \* position of the process inside build / find_workspace
    current,      \* find_workspace's candidate directory (build.rs:36)
    iters,        \* loop bodies of find_workspace executed so far
    result,       \* what build (or find_workspace) returned
    workspace,    \* the Workspace value (workspace.rs:42-45)
    document,     \* the Document value (workspace.rs:120-124)
    text,         \* document_text (build.rs:64)
    stdout,       \* what the process printed
    temp,         \* the temporary directory of build.rs:69 and its files
    compiles,     \* invocations of the compile collaborator (build.rs:72)
    pdfWrites,    \* writes build made to docs/<key>/output.pdf
    instance,     \* Templates::get's static INSTANCE (workspace.rs:19)
    loads,        \* runs of Templates::load
    log           \* one record per Document::generate call

vars == <<start, marker, live, tree, outputPdf, opts, pc, current, iters, result,
          workspace, document, text, stdout, temp, compiles, pdfWrites,
          instance, loads, log>>

(***************************************************************************)
(* Bounds of the model.                                                    *)
(***************************************************************************)
MaxDepth == 2      \* deepest start directory of the workspace search
BuildDepth == 1    \* deepest start directory of a whole build
MaxCalls == 2      \* Document::generate calls in one process

DirNames == <<"a", "b", "c", "d", "e", "f">>

\* The directory at a given depth on the chain of start's ancestors.
Dir(n) == SubSeq(DirNames, 1, n)

(***************************************************************************)
(* Paths (std::path)                                                       *)
(***************************************************************************)
Join(p, name) == Append(p, name)

\* A walk that takes the root for a directory with a parent.
AlwaysHasParent(p) == TRUE

HasParent(p) == Len(p) > 0

\* A walk that steps over the parent to the grandparent.
GrandParent(p) == SubSeq(p, 1, Len(p) - 2)

Parent(p) == SubSeq(p, 1, Len(p) - 1)

(***************************************************************************)
(* Errors (workspace.rs:31-39, build.rs:23-33)                             *)
(***************************************************************************)
NoPath == <<>>

NotFound(p) == [kind |-> "NotFound", path |-> p, msg |-> ""]

NotValid(m) == [kind |-> "NotValid", path |-> NoPath, msg |-> m]

IoError(m) == [kind |-> "IoError", path |-> NoPath, msg |-> m]

ShellError(m) == [kind |-> "BuildError", path |-> NoPath, msg |-> m]

NoError == [kind |-> "none", path |-> NoPath, msg |-> ""]

Ok(v) == [ok |-> TRUE, val |-> v, err |-> NoError]

Err(e) == [ok |-> FALSE, val |-> "none", err |-> e]

(***************************************************************************)
(* Files.  A file is absent, present but not openable (File::open fails     *)
(* for a reason other than absence), openable but not readable             *)
(* (read_to_end fails, e.g. the name is a directory), or a file with TOML  *)
(* content.  TOML content is either a syntax error or a table; a table     *)
(* value is a string or an array of strings.                               *)
(***************************************************************************)
EmptyTable == [k \in {} |-> 0]

Str(s) == [type |-> "string", s |-> s, list |-> <<>>]

Arr(l) == [type |-> "array", s |-> "", list |-> l]

Toml(t) == [syntax |-> TRUE, table |-> t]

SyntaxError == [syntax |-> FALSE, table |-> EmptyTable]

Absent == [kind |-> "absent", toml |-> SyntaxError]

Unopenable == [kind |-> "unopenable", toml |-> SyntaxError]

Unreadable == [kind |-> "unreadable", toml |-> SyntaxError]

File(c) == [kind |-> "file", toml |-> c]

\* A marker check that asks for a file that deserializes instead of a file
\* that exists.
FileLoads(f) == f.kind = "file" /\ f.toml.syntax

\* Path::exists on the file (build.rs:38): a stat, so no read permission is needed.
FileExists(f) == f.kind # "absent"

(***************************************************************************)
(* Metadata (workspace.rs:47-74)                                           *)
(***************************************************************************)
Engines == {"Xelatex", "Pdflatex"}

\* toml::from_slice::<Metadata> (workspace.rs:69): engine is an Option<Engine>.
ParseMetadata(c) ==
    IF ~c.syntax THEN Err(NotValid("syntax error"))
    ELSE IF "engine" \notin DOMAIN c.table THEN Ok([engine |-> "None"])
    ELSE IF c.table["engine"].type = "string" /\ c.table["engine"].s \in Engines
         THEN Ok([engine |-> c.table["engine"].s])
    ELSE Err(NotValid("unknown variant for engine"))

\* Metadata::load (workspace.rs:61-73): every failure of File::open is
\* mapped to NotFound(root).
Metadata_load(root, f) ==
    IF f.kind \in {"absent", "unopenable"} THEN Err(NotFound(root))
    ELSE IF f.kind = "unreadable" THEN Err(IoError("read_to_end"))
    ELSE ParseMetadata(f.toml)

NoWorkspace == [some |-> FALSE, path |-> NoPath, metadata |-> [engine |-> "None"]]

\* Workspace::new (workspace.rs:185-190)
Workspace_new(path, f) ==
    LET m == Metadata_load(path, f)
    IN  IF m.ok THEN Ok([some |-> TRUE, path |-> path, metadata |-> m.val])
        ELSE Err(m.err)

(***************************************************************************)
(* The filesystem above the start directory.                               *)
(***************************************************************************)
WorkspaceTomls ==
    { SyntaxError,
      Toml(EmptyTable),
      Toml("engine" :> Str("Xelatex")),
      Toml("engine" :> Str("Pdflatex")),
      Toml("engine" :> Str("xelatex")) }

MarkerStates == {Absent, Unopenable, Unreadable} \cup {File(c) : c \in WorkspaceTomls}

\* Path::exists on a directory of the chain (build.rs:37).
Exists(p) == Len(p) < live

\* The state of <p>/workspace.toml.
MarkerAt(p) == marker[Len(p)]

(***************************************************************************)
(* DocumentMeta (workspace.rs:78-119)                                      *)
(***************************************************************************)
default_class == "article"

default_prelude_includes == <<"main.tex">>

default_sections == <<"main.tex">>

\* One field of the table as serde reads it: missing, of the wrong type, or
\* the value.
StringField(t, k) ==
    IF k \notin DOMAIN t THEN [given |-> FALSE, bad |-> FALSE, s |-> ""]
    ELSE [given |-> TRUE, bad |-> t[k].type # "string", s |-> t[k].s]

ArrayField(t, k, default) ==
    IF k \notin DOMAIN t THEN [bad |-> FALSE, list |-> default]
    ELSE [bad |-> t[k].type # "array", list |-> t[k].list]

\* toml::from_slice::<DocumentMeta> (workspace.rs:117) with the serde
\* attributes of workspace.rs:80-96: document_class has the alias
\* document-class, and naming both is a duplicate field.
ParseDocumentMeta(c) ==
    IF ~c.syntax THEN Err(NotValid("syntax error"))
    ELSE
      LET t == c.table
          canonical == StringField(t, "document_class")
          alias == StringField(t, "document-class")
          options == ArrayField(t, "document_options", <<>>)
          includes == ArrayField(t, "prelude_includes", default_prelude_includes)
          sections == ArrayField(t, "sections", default_sections)
      IN  IF canonical.given /\ alias.given
          THEN Err(NotValid("duplicate field document_class"))
          ELSE IF canonical.bad \/ alias.bad \/ options.bad \/ includes.bad \/ sections.bad
          THEN Err(NotValid("invalid type"))
          ELSE Ok([document_class |->
                       IF canonical.given THEN canonical.s
                       ELSE IF alias.given THEN alias.s
                       ELSE default_class,
                   document_options |-> options.list,
                   prelude_includes |-> includes.list,
                   sections |-> sections.list])

\* DocumentMeta::load (workspace.rs:112-118): a failure of File::open or of
\* read_to_end goes through ? and the #[from] of workspace.rs:38.
DocumentMeta_load(root, f) ==
    IF f.kind = "absent" THEN Err(IoError("No such file or directory"))
    ELSE IF f.kind = "unopenable" THEN Err(IoError("Permission denied"))
    ELSE IF f.kind = "unreadable" THEN Err(IoError("read_to_end"))
    ELSE ParseDocumentMeta(f.toml)

\* Workspace::document (workspace.rs:193-202); f is the state of
\* <workspace>/docs/<key>/metadata.toml.
Workspace_document(w, key, f) ==
    LET doc_path == Join(Join(w.path, "docs"), key)
        m == DocumentMeta_load(doc_path, f)
    IN  IF m.ok THEN Ok([some |-> TRUE, key |-> key, metadata |-> m.val])
        ELSE Err(m.err)

\* serde's Serialize of DocumentMeta (workspace.rs:78-97): the three lists
\* are skipped when empty.
SerializeDocumentMeta(m) ==
    ("document_class" :> Str(m.document_class))
    @@ (IF m.document_options = <<>> THEN EmptyTable
        ELSE "document_options" :> Arr(m.document_options))
    @@ (IF m.prelude_includes = <<>> THEN EmptyTable
        ELSE "prelude_includes" :> Arr(m.prelude_includes))
    @@ (IF m.sections = <<>> THEN EmptyTable
        ELSE "sections" :> Arr(m.sections))

(***************************************************************************)
(* The tree below a workspace root: tree.prelude says whether              *)
(* <root>/prelude is a directory, tree.meta[key] is the state of           *)
(* <root>/docs/<key>/metadata.toml, tree.links maps each symbolic link to   *)
(* its target, tree.pdf is docs/<key>/output.pdf before the process ran.   *)
(* A fact a process has not read yet may be "unknown": it is fixed by the  *)
(* first read.                                                             *)
(***************************************************************************)
Keys == {"report", "memo"}

Unknown == [kind |-> "unknown", toml |-> SyntaxError]

NoLinks == [p \in {} |-> <<>>]

\* std::fs::canonicalize without the existence check: symbolic links are
\* resolved component by component.
RECURSIVE Resolve(_, _)
Resolve(links, p) ==
    IF p = <<>> THEN <<>>
    ELSE LET q == Append(Resolve(links, Parent(p)), p[Len(p)])
         IN  IF q \in DOMAIN links THEN links[q] ELSE q

\* Whether the directory <root>/prelude or <root>/docs/<key> is there.
DirExists(t, p) ==
    IF p[Len(p)] = "prelude" THEN t.prelude = "dir"
    ELSE t.meta[p[Len(p)]].kind \notin {"absent", "unknown"}

\* Path::canonicalize (workspace.rs:139, 155, 179)
Canonicalize(t, p) ==
    IF DirExists(t, p) THEN Ok(Resolve(t.links, p))
    ELSE Err(IoError("canonicalize"))

\* Path::to_str: "/" before every component.
PathStr(p) ==
    IF p = <<>> THEN <<"/">>
    ELSE [i \in 1..(2 * Len(p)) |-> IF i % 2 = 1 THEN "/" ELSE p[i \div 2]]

\* A root rendered without the separator.
WithoutSlash(str) == str

\* format!("{}/", ..) of workspace.rs:133 and 148.
WithSlash(str) == Append(str, "/")

(***************************************************************************)
(* Document (workspace.rs:120-182)                                         *)
(***************************************************************************)
PreludeDir(w) == Join(w.path, "prelude")

DocumentDir(w, d) == Join(Join(w.path, "docs"), d.key)

\* A root that is joined and never canonicalized.
UnresolvedRoot(t, p) ==
    IF DirExists(t, p) THEN Ok(p) ELSE Err(IoError("canonicalize"))

\* The path build_context resolves for a root.
ContextRoot(t, p) == Canonicalize(t, p)

\* Document::build_context (workspace.rs:128-163).  self.metadata is the
\* Document's DocumentMeta.  A canonicalize failure panics.
build_context(t, w, d) ==
    LET prelude == ContextRoot(t, PreludeDir(w))
        docroot == ContextRoot(t, DocumentDir(w, d))
    IN  IF ~prelude.ok \/ ~docroot.ok
        THEN [panic |-> TRUE, ctx |-> EmptyTable]
        ELSE [panic |-> FALSE,
              ctx |-> [metadata |-> SerializeDocumentMeta(d.metadata),
                       prelude_root |-> WithSlash(PathStr(prelude.val)),
                       prelude_includes |-> d.metadata.prelude_includes,
                       document_root |-> WithSlash(PathStr(docroot.val)),
                       sections |-> d.metadata.sections]]

\* The template "document" (templates/doc.tera.tex) rendered by Tera: the
\* class with its options, then one input per prelude include and per
\* section, each name appended to its root, in the order of the lists.
Render(ctx) ==
    LET m == ctx.metadata
        options == IF "document_options" \in DOMAIN m
                   THEN m["document_options"].list ELSE <<>>
        head == <<"\\documentclass", "[">> \o options
                    \o <<"]", "{", m["document_class"].s, "}">>
        includes == [i \in 1..Len(ctx.prelude_includes) |->
                        <<"\\input", "{">> \o ctx.prelude_root
                            \o <<ctx.prelude_includes[i], "}">>]
        sections == [i \in 1..Len(ctx.sections) |->
                        <<"\\input", "{">> \o ctx.document_root
                            \o <<ctx.sections[i], "}">>]
    IN  <<head>> \o includes \o sections

\* The template singleton: whether INSTANCE is set, and which run of
\* Templates::load built the value it holds.
NoInstance == [init |-> FALSE, id |-> 0]

\* A template engine built at every call.
Templates_reload(inst, n) ==
    [instance |-> [init |-> TRUE, id |-> n + 1], loads |-> n + 1]

\* Templates::get (workspace.rs:18-21): OnceCell::get_or_init runs
\* Templates::load only while the cell is empty.  n is the number of runs of
\* Templates::load so far.
Templates_get(inst, n) ==
    IF inst.init THEN [instance |-> inst, loads |-> n]
    ELSE [instance |-> [init |-> TRUE, id |-> n + 1], loads |-> n + 1]

\* Document::output_path (workspace.rs:173-181)
output_path(t, w, d) ==
    LET dir == Canonicalize(t, DocumentDir(w, d))
    IN  IF dir.ok THEN Ok(Join(dir.val, "output.pdf")) ELSE Err(dir.err)

NoCtx ==
    [metadata |-> EmptyTable, prelude_root |-> <<>>, prelude_includes |-> <<>>,
     document_root |-> <<>>, sections |-> <<>>]

\* Document::generate (workspace.rs:166-171).  parses says whether the
\* embedded template compiles (the unwrap of workspace.rs:26 panics when it
\* does not); n is the number of runs of Templates::load so far.
generate(t, w, d, inst, n, parses) ==
    LET c == build_context(t, w, d)
        g == Templates_get(inst, n)
    IN  IF c.panic
        THEN [panic |-> TRUE, got |-> FALSE, instance |-> inst, loads |-> n,
              ctx |-> NoCtx, text |-> <<>>]
        ELSE IF ~inst.init /\ ~parses
        THEN [panic |-> TRUE, got |-> TRUE, instance |-> inst, loads |-> g.loads,
              ctx |-> c.ctx, text |-> <<>>]
        ELSE [panic |-> FALSE, got |-> TRUE, instance |-> g.instance, loads |-> g.loads,
              ctx |-> c.ctx, text |-> Render(c.ctx)]

\* The record of one call of Document::generate.
Call(w, d, inst, g) ==
    [w |-> w, d |-> d, panic |-> g.panic, got |-> g.got,
     loaded |-> g.got /\ ~inst.init, id |-> g.instance.id,
     ctx |-> g.ctx, text |-> g.text]

(***************************************************************************)
(* The states of the files the model draws from.                           *)
(***************************************************************************)
ClassEntries ==
    { EmptyTable,
      "document_class" :> Str("report"),
      "document-class" :> Str("book") }

OptionEntries ==
    { EmptyTable, "document_options" :> Arr(<<"a4paper", "twoside">>) }

PreludeEntries ==
    { EmptyTable, "prelude_includes" :> Arr(<<"fonts.tex", "macros.tex">>) }

SectionEntries ==
    { EmptyTable,
      "sections" :> Arr(<<"intro.tex", "body.tex">>),
      "sections" :> Arr(<<"body.tex", "intro.tex">>),
      "sections" :> Arr(<<>>),
      "sections" :> Str("main.tex") }

DocumentTomls ==
    {SyntaxError}
    \cup { Toml(a @@ b @@ c @@ d) :
             a \in ClassEntries, b \in OptionEntries,
             c \in PreludeEntries, d \in SectionEntries }

DocFileStates == {Absent, Unopenable, Unreadable} \cup {File(c) : c \in DocumentTomls}

NoFile == [state |-> "absent", content |-> <<>>]

PdfFile(c) == [state |-> "file", content |-> c]

\* What a copy that failed after it had truncated the destination leaves.
PartialFile == [state |-> "partial", content |-> <<>>]

OldPdf == PdfFile(<< <<"%PDF", "previous build">> >>)

\* The artifact the compile collaborator makes of a source file.
Artifact(tex) == << <<"%PDF">> >> \o tex

UnknownTree(pdf) ==
    [prelude |-> "unknown", meta |-> [k \in Keys |-> Unknown], links |-> NoLinks,
     pdf |-> pdf]

\* What a read of a fact of the tree may find.
MetaStates(key) ==
    IF tree.meta[key] = Unknown THEN DocFileStates ELSE {tree.meta[key]}

PreludeStates ==
    IF tree.prelude = "unknown" THEN {"dir", "missing"} ELSE {tree.prelude}

NoOpts == [document |-> [some |-> FALSE, key |-> ""], generate |-> FALSE]

OptsSet ==
    { [document |-> d, generate |-> g] :
        d \in {[some |-> FALSE, key |-> ""], [some |-> TRUE, key |-> "report"]},
        g \in BOOLEAN }

(***************************************************************************)
(* The process                                                             *)
(***************************************************************************)
Running == [status |-> "running", err |-> NoError]

Returned == [status |-> "ok", err |-> NoError]

Failed(e) == [status |-> "err", err |-> e]

Panicked == [status |-> "panic", err |-> NoError]

NoDocument ==
    [some |-> FALSE, key |-> "",
     metadata |-> [document_class |-> "", document_options |-> <<>>,
                   prelude_includes |-> <<>>, sections |-> <<>>]]

NoTemp == [state |-> "none", tex |-> <<>>, pdf |-> <<>>]

procVars == <<document, text, stdout, temp, compiles, pdfWrites, instance, loads, log, tree, outputPdf>>

InitProcess(at) ==
    /\ pc = at
    /\ current = NoPath
    /\ iters = 0
    /\ result = Running
    /\ workspace = NoWorkspace
    /\ document = NoDocument
    /\ text = <<>>
    /\ stdout = <<>>
    /\ temp = NoTemp
    /\ compiles = 0
    /\ pdfWrites = 0
    /\ instance = NoInstance
    /\ loads = 0
    /\ log = <<>>

InitChain(depth) ==
    /\ start \in {Dir(n) : n \in 0..depth}
    /\ marker \in [0..Len(start) -> MarkerStates]
    /\ live \in 1..(Len(start) + 1)

\* env::current_dir()? (build.rs:53): fails when the working directory is gone.
CurrentDir ==
    /\ pc = "cwd"
    /\ \/ /\ current' = start
          /\ pc' = "walk"
          /\ UNCHANGED result
       \/ /\ result' = Failed(IoError("current_dir"))
          /\ pc' = "done"
          /\ UNCHANGED current
    /\ UNCHANGED <<start, marker, live, opts, iters, workspace>>
    /\ UNCHANGED procVars

\* One evaluation of the loop condition of find_workspace and, when it holds,
\* one loop body (build.rs:37-48).  An error is returned through the ? of
\* build.rs:54.
find_workspace_step ==
    /\ pc = "walk"
    /\ IF ~Exists(current)
       THEN /\ result' = Failed(NotFound(current))
            /\ pc' = "done"
            /\ UNCHANGED <<current, iters, workspace>>
       ELSE /\ iters' = iters + 1
            /\ IF FileExists(MarkerAt(current))
               THEN LET w == Workspace_new(current, MarkerAt(current))
                    IN  IF w.ok
                        THEN /\ workspace' = w.val
                             /\ pc' = "document"
                             /\ UNCHANGED <<current, result>>
                        ELSE /\ result' = Failed(w.err)
                             /\ pc' = "done"
                             /\ UNCHANGED <<current, workspace>>
               ELSE IF HasParent(current)
                    THEN /\ current' = Parent(current)
                         /\ UNCHANGED <<pc, result, workspace>>
                    ELSE /\ result' = Failed(NotFound(current))
                         /\ pc' = "done"
                         /\ UNCHANGED <<current, workspace>>
    /\ UNCHANGED <<start, marker, live, opts>>
    /\ UNCHANGED procVars

walkVars == <<start, marker, live, opts, current, iters, workspace>>

\* build.rs:59-62: opts.document names the document; without it the todo!()
\* panics.
document_step ==
    /\ pc = "document"
    /\ IF ~opts.document.some
       THEN /\ result' = Panicked
            /\ pc' = "done"
            /\ UNCHANGED <<document, tree>>
       ELSE \E f \in MetaStates(opts.document.key) :
              LET r == Workspace_document(workspace, opts.document.key, f)
              IN  /\ tree' = [tree EXCEPT !.meta[opts.document.key] = f]
                  /\ IF r.ok
                     THEN /\ document' = r.val
                          /\ pc' = "generate"
                          /\ UNCHANGED result
                     ELSE /\ result' = Failed(r.err)
                          /\ pc' = "done"
                          /\ UNCHANGED document
    /\ UNCHANGED walkVars
    /\ UNCHANGED <<text, stdout, temp, compiles, pdfWrites, instance, loads, log, outputPdf>>

\* build.rs:64: document.generate()
generate_step ==
    /\ pc = "generate"
    /\ \E pre \in PreludeStates, parses \in BOOLEAN :
          LET t == [tree EXCEPT !.prelude = pre]
              g == generate(t, workspace, document, instance, loads, parses)
          IN  /\ tree' = t
              /\ instance' = g.instance
              /\ loads' = g.loads
              /\ log' = Append(log, Call(workspace, document, instance, g))
              /\ IF g.panic
                 THEN /\ result' = Panicked
                      /\ pc' = "done"
                      /\ UNCHANGED text
                 ELSE /\ text' = g.text
                      /\ pc' = "emit"
                      /\ UNCHANGED result
    /\ UNCHANGED walkVars
    /\ UNCHANGED <<document, stdout, temp, compiles, pdfWrites, outputPdf>>

\* A build that ignores the generate flag.
AlwaysCompile == FALSE

\* build.rs:65: opts.generate
GenerateOnly == opts.generate

Newline == << <<"\n">> >>

\* println!("{}", document_text) (build.rs:66)
Println(t) == <<t, Newline>>

\* build.rs:66 and 76
print_step ==
    /\ pc = "emit"
    /\ GenerateOnly
    /\ stdout' = stdout \o Println(text)
    /\ result' = Returned
    /\ pc' = "done"
    /\ UNCHANGED walkVars
    /\ UNCHANGED <<document, text, temp, compiles, pdfWrites, instance, loads, log, tree, outputPdf>>

\* A temporary directory that outlives its scope.
KeepTempDir(t) == t

\* The drop of the TempDir `dir` when control leaves the block of
\* build.rs:67-74: xshell removes the directory.
DropTempDir(t) == [t EXCEPT !.state = "removed"]

\* build.rs:68-70: Shell::new()?, create_temp_dir()?, push_dir
create_temp_dir_step ==
    /\ pc = "emit"
    /\ ~GenerateOnly
    /\ \/ /\ temp' = [temp EXCEPT !.state = "exists"]
          /\ pc' = "write"
          /\ UNCHANGED result
       \/ /\ result' = Failed(ShellError("create_temp_dir"))
          /\ pc' = "done"
          /\ UNCHANGED temp
    /\ UNCHANGED walkVars
    /\ UNCHANGED <<document, text, stdout, compiles, pdfWrites, instance, loads, log, tree, outputPdf>>

\* build.rs:71: sh.write_file("output.tex", document_text)?
write_file_step ==
    /\ pc = "write"
    /\ \/ /\ temp' = [temp EXCEPT !.tex = text]
          /\ pc' = "compile"
          /\ UNCHANGED result
       \/ /\ result' = Failed(ShellError("write_file"))
          /\ pc' = "done"
          /\ temp' = DropTempDir(temp)
    /\ UNCHANGED walkVars
    /\ UNCHANGED <<document, text, stdout, compiles, pdfWrites, instance, loads, log, tree, outputPdf>>

\* A compile step whose failure is not checked: build goes on to the copy.
compile_step_unchecked ==
    /\ pc = "compile"
    /\ compiles' = compiles + 1
    /\ \/ temp' = [temp EXCEPT !.pdf = Artifact(temp.tex)]
       \/ temp' = temp
    /\ pc' = "copy"
    /\ UNCHANGED result
    /\ UNCHANGED <<start, marker, live, opts, current, iters, workspace>>
    /\ UNCHANGED <<document, text, stdout, pdfWrites, instance, loads, log, tree, outputPdf>>

\* build.rs:72: cmd!(sh, "xelatex output.tex").run()?  On success the
\* collaborator has written output.pdf beside output.tex.
compile_step ==
    /\ pc = "compile"
    /\ compiles' = compiles + 1
    /\ \/ /\ temp' = [temp EXCEPT !.pdf = Artifact(temp.tex)]
          /\ pc' = "copy"
          /\ UNCHANGED result
       \/ /\ result' = Failed(ShellError("xelatex"))
          /\ pc' = "done"
          /\ temp' = DropTempDir(temp)
    /\ UNCHANGED walkVars
    /\ UNCHANGED <<document, text, stdout, pdfWrites, instance, loads, log, tree, outputPdf>>

\* build.rs:73-76: document.output_path()?, sh.copy_file(..)?, Ok(()).  A
\* copy fails before it touches the destination or after it truncated it.
copy_step ==
    /\ pc = "copy"
    /\ pc' = "done"
    /\ temp' = DropTempDir(temp)
    /\ LET dst == output_path(tree, workspace, document)
       IN  IF ~dst.ok
           THEN /\ result' = Failed(dst.err)
                /\ UNCHANGED <<outputPdf, pdfWrites>>
           ELSE \/ /\ outputPdf' = PdfFile(temp.pdf)
                   /\ pdfWrites' = pdfWrites + 1
                   /\ result' = Returned
                \/ /\ result' = Failed(ShellError("copy_file"))
                   /\ UNCHANGED <<outputPdf, pdfWrites>>
                \/ /\ outputPdf' = PartialFile
                   /\ pdfWrites' = pdfWrites + 1
                   /\ result' = Failed(ShellError("copy_file"))
    /\ UNCHANGED walkVars
    /\ UNCHANGED <<document, text, stdout, compiles, instance, loads, log, tree>>

(***************************************************************************)
(* One run of build (build.rs:51-77), from every start directory of depth  *)
(* at most BuildDepth.                                                     *)
(***************************************************************************)
Init ==
    /\ InitChain(BuildDepth)
    /\ InitProcess("cwd")
    /\ opts \in OptsSet
    /\ tree \in {UnknownTree(NoFile), UnknownTree(OldPdf)}
    /\ outputPdf = tree.pdf

Next ==
    \/ CurrentDir
    \/ find_workspace_step
    \/ document_step
    \/ generate_step
    \/ print_step
    \/ create_temp_dir_step
    \/ write_file_step
    \/ compile_step
    \/ copy_step

Spec == Init /\ [][Next]_vars

(***************************************************************************)
(* A process that uses the document model directly: it opens documents of  *)
(* the workspace /ws, by that path or through the symbolic link /link, and *)
(* calls Document::generate on them, at most MaxCalls times.  The          *)
(* filesystem is fixed: docs/memo is a directory of its own or a symbolic  *)
(* link to docs/report.                                                    *)
(***************************************************************************)
Roots == {<<"ws">>, <<"link">>}

LinkRoot == <<"link">> :> <<"ws">>

LinkMemo == <<"ws", "docs", "memo">> :> <<"ws", "docs", "report">>

GenTrees ==
    { [prelude |-> pre, meta |-> m, links |-> l, pdf |-> NoFile] :
        pre \in {"dir", "missing"},
        m \in { mm \in [Keys -> DocFileStates] :
                  mm["memo"] \in {File(Toml(EmptyTable)), mm["report"]} },
        l \in {LinkRoot, LinkRoot @@ LinkMemo} }

GenInit ==
    /\ start = <<"ws">>
    /\ marker \in { mk \in [0..1 -> MarkerStates] :
                      mk[0] = Absent /\ mk[1] \notin {Unopenable, Unreadable} }
    /\ live = 2
    /\ InitProcess("api")
    /\ opts = NoOpts
    /\ tree \in { t \in GenTrees :
                    <<"ws", "docs", "memo">> \in DOMAIN t.links
                        => t.meta["memo"] = t.meta["report"] }
    /\ outputPdf = tree.pdf

\* Workspace::new(root) and then Workspace::document(key) on its result.
open_document(root, key) ==
    /\ pc = "api"
    /\ Len(log) < MaxCalls
    /\ LET w == Workspace_new(root, MarkerAt(Resolve(tree.links, root)))
           d == Workspace_document(w.val, key, tree.meta[key])
       IN  IF w.ok /\ d.ok
           THEN /\ workspace' = w.val
                /\ document' = d.val
                /\ result' = Running
           ELSE /\ workspace' = NoWorkspace
                /\ document' = NoDocument
                /\ result' = Failed(IF w.ok THEN d.err ELSE w.err)
    /\ UNCHANGED <<start, marker, live, opts, current, iters, pc>>
    /\ UNCHANGED <<text, stdout, temp, compiles, pdfWrites, instance, loads, log, tree, outputPdf>>

\* Document::generate on the open document.
generate_call ==
    /\ pc = "api"
    /\ document.some
    /\ Len(log) < MaxCalls
    /\ \E parses \in BOOLEAN :
          LET g == generate(tree, workspace, document, instance, loads, parses)
          IN  /\ instance' = g.instance
              /\ loads' = g.loads
              /\ log' = Append(log, Call(workspace, document, instance, g))
              /\ text' = g.text
              /\ IF g.panic
                 THEN result' = Panicked /\ pc' = "done"
                 ELSE result' = Running /\ pc' = "api"
    /\ UNCHANGED <<start, marker, live, opts, current, iters, workspace, document>>
    /\ UNCHANGED <<stdout, temp, compiles, pdfWrites, tree, outputPdf>>

GenNext ==
    \/ \E root \in Roots, key \in Keys : open_document(root, key)
    \/ generate_call

GenSpec == GenInit /\ [][GenNext]_vars

(***************************************************************************)
(* find_workspace on its own, from every start directory of depth at most  *)
(* MaxDepth.                                                               *)
(***************************************************************************)
WalkInit ==
    /\ InitChain(MaxDepth)
    /\ InitProcess("cwd")
    /\ tree = UnknownTree(NoFile)
    /\ outputPdf = tree.pdf
    /\ opts = NoOpts

WalkNext == CurrentDir \/ find_workspace_step

WalkSpec == WalkInit /\ [][WalkNext]_vars

(***************************************************************************)
(* Properties of find_workspace                                            *)
(***************************************************************************)
\* The levels of the chain whose directory directly contains workspace.toml.
MarkedLevels == {n \in 0..Len(start) : marker[n] # Absent}

\* The nearest of them to the start directory.
NearestMarked == CHOOSE n \in MarkedLevels : \A m \in MarkedLevels : m <= n

\* The start directory exists and lies inside a workspace tree.
StartInTree == live = Len(start) + 1 /\ MarkedLevels # {}

\* find_workspace has returned (env::current_dir did not fail before it).
FindReturned ==
    /\ pc \notin {"cwd", "walk"}
    /\ ~(result.status = "err" /\ result.err.msg = "current_dir")

\* The marker files that open, read and deserialize.
Loadable ==
    { File(Toml(EmptyTable)),
      File(Toml("engine" :> Str("Xelatex"))),
      File(Toml("engine" :> Str("Pdflatex"))) }

\* The marker files that open and read but do not deserialize.
Malformed ==
    { File(SyntaxError), File(Toml("engine" :> Str("xelatex"))) }

\* C1 as stated: from every start directory inside a workspace tree,
\* find_workspace returns the Workspace rooted at the nearest ancestor (the
\* start included) that directly contains workspace.toml.
C1_AlwaysNearestWorkspace ==
    (StartInTree /\ FindReturned) =>
        /\ workspace.some
        /\ workspace.path = Dir(NearestMarked)

\* C1 amended: from every start directory inside a workspace tree, at any
\* depth, find_workspace decides at the nearest ancestor (the start included)
\* that directly contains workspace.toml and at no farther one: it returns the
\* Workspace rooted there when that file opens, reads and deserializes, and
\* an error otherwise.
C1_NearestWorkspaceWhenLoadable ==
    (StartInTree /\ FindReturned) =>
        /\ current = Dir(NearestMarked)
        /\ IF marker[NearestMarked] \in Loadable
           THEN workspace.some /\ workspace.path = Dir(NearestMarked)
           ELSE /\ ~workspace.some
                /\ result.status = "err"
                /\ result.err.kind \in {"NotFound", "IoError", "NotValid"}

\* C1 witness: a start directory at depth 2, below its workspace root at
\* depth 1, with another loadable marker at the filesystem root; the walk
\* resolved to the nearer root.
C1_Witness ==
    /\ StartInTree /\ FindReturned
    /\ Len(start) >= 2
    /\ NearestMarked = 1
    /\ marker[0] \in Loadable
    /\ workspace.some /\ workspace.path = Dir(1)

\* C4: when no ancestor of the start directory (itself included, up to the
\* filesystem root) contains workspace.toml, every loop iteration replaces
\* the candidate by its strict parent or returns, the walk cannot get stuck,
\* it runs at most depth+1 iterations, and it returns NotFound.
C4_NoMarkerNotFound ==
    (MarkedLevels = {}) =>
        /\ pc = "walk" => iters + Len(current) = Len(start)
        /\ pc = "walk" => ENABLED find_workspace_step
        /\ iters <= Len(start) + 1
        /\ FindReturned =>
              /\ ~workspace.some
              /\ pc = "done"
              /\ result.status = "err"
              /\ result.err.kind = "NotFound"

\* C4 witness: a walk from depth 2 that visited all three directories up to
\* the filesystem root and returned NotFound there.
C4_Witness ==
    /\ MarkedLevels = {}
    /\ Len(start) = 2
    /\ FindReturned
    /\ iters = Len(start) + 1
    /\ result = Failed(NotFound(NoPath))

\* C9: the walk passes every directory without workspace.toml and ends at
\* the first directory that contains it; when that file is malformed the
\* result is NotValid, found in that directory, whatever the markers of the
\* higher ancestors are.
C9_MalformedMarkerStops ==
    /\ pc = "walk" =>
          \A l \in (Len(current) + 1)..Len(start) : marker[l] = Absent
    /\ (StartInTree /\ FindReturned /\ marker[NearestMarked] \in Malformed) =>
          /\ ~workspace.some
          /\ pc = "done"
          /\ result.status = "err"
          /\ result.err.kind = "NotValid"
          /\ current = Dir(NearestMarked)
          /\ iters = Len(start) - NearestMarked + 1

\* C9 witness: a malformed marker below an ancestor whose marker is valid;
\* the walk ended with NotValid.
C9_Witness ==
    /\ StartInTree /\ FindReturned
    /\ NearestMarked >= 1
    /\ marker[NearestMarked] \in Malformed
    /\ marker[0] \in Loadable
    /\ result.err.kind = "NotValid"

(***************************************************************************)
(* Properties of the loaders                                               *)
(***************************************************************************)
\* metadata.toml of the document build was asked for.
MetadataToml == Join(Join(Join(workspace.path, "docs"), opts.document.key), "metadata.toml")

TheMeta == tree.meta[opts.document.key]

\* Workspace::new failed in find_workspace, on the marker of `current`.
WorkspaceLoadFailed ==
    /\ pc = "done" /\ FindReturned /\ ~workspace.some
    /\ Exists(current) /\ MarkerAt(current) # Absent

\* Workspace::document failed in build.
DocumentLoadFailed ==
    /\ pc = "done" /\ workspace.some /\ ~document.some /\ opts.document.some

\* C5: both loaders report an absent file as NotFound carrying the attempted
\* path, a file that does not deserialize as NotValid, and any other I/O
\* failure as IoError.
C5_LoadersDistinguish ==
    /\ WorkspaceLoadFailed =>
          /\ MarkerAt(current) \in {Unopenable, Unreadable}
                => result.err.kind = "IoError"
          /\ MarkerAt(current).kind = "file" => result.err.kind = "NotValid"
    /\ DocumentLoadFailed =>
          /\ TheMeta = Absent => result.err = NotFound(MetadataToml)
          /\ TheMeta \in {Unopenable, Unreadable} => result.err.kind = "IoError"
          /\ TheMeta.kind = "file" => result.err.kind = "NotValid"

(***************************************************************************)
(* Properties of build                                                     *)
(***************************************************************************)
BuildMode == ~opts.generate

\* The compile collaborator ran and reported success.
CompileSucceeded == compiles = 1 /\ temp.pdf # <<>>

EarlyFailures == {"create_temp_dir", "write_file", "xelatex"}

\* document.generate() returned the text (build.rs:64).
Generated == Len(log) = 1 /\ ~log[1].panic

\* What C2 says of the runs that fail before or in the compile step, and of
\* the order of compile and copy.
C2_FailureLeavesOutput ==
    BuildMode =>
        /\ pdfWrites > 0 => CompileSucceeded
        /\ ~CompileSucceeded => outputPdf = tree.pdf
        /\ (pc = "done" /\ Generated /\ ~CompileSucceeded)
              => result.status = "err" /\ result.err.msg \in EarlyFailures

Calls == 1..Len(log)

\* What C7 names as the inputs of a call: the two metadata records and the
\* resolved prelude and document directories.
Inputs(e) ==
    [workspace |-> e.w.metadata,
     document |-> e.d.metadata,
     prelude |-> Resolve(tree.links, PreludeDir(e.w)),
     docroot |-> Resolve(tree.links, DocumentDir(e.w, e.d))]

C8_TemplatesLoadedOnce ==
    /\ loads <= 1
    /\ instance.init => loads = 1 /\ instance.id = 1
    /\ (\A i \in Calls : ~log[i].got) => loads = 0 /\ ~instance.init
    /\ \A i \in Calls :
          /\ log[i].loaded <=> (log[i].got /\ \A j \in 1..(i - 1) : ~log[j].got)
          /\ ~log[i].panic => log[i].id = 1 /\ instance = [init |-> TRUE, id |-> 1]

\* C8 witness: two calls rendered; the first ran Templates::load, the second
\* did not.
C8_Witness ==
    /\ Len(log) >= 2
    /\ log[1].loaded /\ ~log[1].panic
    /\ ~log[2].loaded /\ ~log[2].panic
    /\ loads = 1

\* What metadata.toml of a call's document declares.
Declared(e) == tree.meta[e.d.key].toml.table

DeclaredList(e, k, default) ==
    IF k \in DOMAIN Declared(e) THEN Declared(e)[k].list ELSE default

DeclaredClass(e) ==
    IF "document_class" \in DOMAIN Declared(e) THEN Declared(e)["document_class"].s
    ELSE IF "document-class" \in DOMAIN Declared(e) THEN Declared(e)["document-class"].s
    ELSE "article"

\* What C10 says of the document's own data and of the two roots.
C10_DocumentPart(e) ==
    /\ e.ctx.metadata["document_class"] = Str(DeclaredClass(e))
    /\ IF DeclaredList(e, "document_options", <<>>) # <<>>
       THEN /\ "document_options" \in DOMAIN e.ctx.metadata
            /\ e.ctx.metadata["document_options"]
                 = Arr(DeclaredList(e, "document_options", <<>>))
       ELSE "document_options" \notin DOMAIN e.ctx.metadata
    /\ e.ctx.prelude_root[Len(e.ctx.prelude_root)] = "/"
    /\ e.ctx.document_root[Len(e.ctx.document_root)] = "/"
    /\ e.ctx.prelude_root
         = PathStr(Resolve(tree.links, PreludeDir(e.w))) \o <<"/">>
    /\ e.ctx.document_root
         = PathStr(Resolve(tree.links, DocumentDir(e.w, e.d))) \o <<"/">>
    /\ e.ctx.prelude_includes = DeclaredList(e, "prelude_includes", <<"main.tex">>)
    /\ e.ctx.sections = DeclaredList(e, "sections", <<"main.tex">>)

====
